---- MODULE Spec2Model ----
(***************************************************************************)
(* The instruction-execution core of rustboy (src/src/cpu.rs): the Cpu     *)
(* aggregate (registers, pc, sp, bus), the run cycle, execute's dispatch   *)
(* over ArithmeticTarget and the add / addc operations with their flags.   *)
(* Registers, Bus and Instruction::from_byte live in modules whose source  *)
(* is not part of src/; they are modelled from the specification.          *)
(***************************************************************************)
EXTENDS Integers, Sequences, FiniteSets, TLC

VARIABLES registers, pc, sp, bus, panicked, last, steps

vars == <<registers, pc, sp, bus, panicked, last, steps>>

(***************************************************************************)
(* Fixed-width integers                                                    *)
(***************************************************************************)
U8Modulus == 256
U16Modulus == 65536

U8 == 0 .. (U8Modulus - 1)
U16 == 0 .. (U16Modulus - 1)

\* u16::wrapping_add
wrapping_add(x, n) == (x + n) % U16Modulus

\* u8::overflowing_add: the wrapped sum and whether the addition overflowed
overflowing_add(x, y) ==
    [value |-> (x + y) % U8Modulus, overflow |-> (x + y) >= U8Modulus]

\* the bitwise & of two naturals, bit by bit
RECURSIVE BitAnd(_, _)
BitAnd(x, y) ==
    IF x = 0 \/ y = 0
    THEN 0
    ELSE (x % 2) * (y % 2) + 2 * BitAnd(x \div 2, y \div 2)

\* `flag as u8`
bool_as_u8(flag) == IF flag THEN 1 ELSE 0

(***************************************************************************)
(* Register file, bus and decoder (modelled from the specification)        *)
(***************************************************************************)
FlagsRegister(z, n, h, c) ==
    [zero |-> z, substraction |-> n, half_carry |-> h, carry |-> c]

\* Registers::new(): every register and every flag cleared
NewRegisters ==
    [a |-> 0, b |-> 0, c |-> 0, d |-> 0, e |-> 0, h |-> 0, l |-> 0,
     f |-> FlagsRegister(FALSE, FALSE, FALSE, FALSE)]

\* the flags packed into bits 7..4 of the f byte
flags_as_u8(f) ==
    128 * bool_as_u8(f.zero) + 64 * bool_as_u8(f.substraction)
      + 32 * bool_as_u8(f.half_carry) + 16 * bool_as_u8(f.carry)

read_af(regs) == regs.a * 256 + flags_as_u8(regs.f)
read_hl(regs) == regs.h * 256 + regs.l

\* Bus::new(): a memory of zeroes; the bus is kept as the map of the bytes
\* stored so far, every other address reading 0
NewBus == <<>>
read_byte(memory, address) ==
    IF address \in DOMAIN memory THEN memory[address] ELSE 0

Operations == {"ADD", "ADDC", "SUB", "SBC", "OTHER"}
ArithmeticTarget == {"A", "B", "C", "D", "E", "H", "L", "HL", "D8"}
Instruction == [op : Operations, target : ArithmeticTarget]
Instr(op, target) == [op |-> op, target |-> target]

None == <<>>
Some(x) == <<x>>

\* the register column of the processor's opcode table (low three bits)
TargetColumn == <<"B", "C", "D", "E", "H", "L", "HL", "A">>

\* Instruction::from_byte: the arithmetic rows of the opcode table
from_byte(byte) ==
    CASE byte \in 128 .. 135 -> Some(Instr("ADD", TargetColumn[byte - 127]))
      [] byte \in 136 .. 143 -> Some(Instr("ADDC", TargetColumn[byte - 135]))
      [] byte \in 144 .. 151 -> Some(Instr("SUB", TargetColumn[byte - 143]))
      [] byte \in 152 .. 159 -> Some(Instr("SBC", TargetColumn[byte - 151]))
      [] byte = 198 -> Some(Instr("ADD", "D8"))
      [] byte = 206 -> Some(Instr("ADDC", "D8"))
      [] byte = 214 -> Some(Instr("SUB", "D8"))
      [] byte = 222 -> Some(Instr("SBC", "D8"))
      [] OTHER -> None

(***************************************************************************)
(* Cpu                                                                     *)
(***************************************************************************)
\* the Cpu aggregate as one value
Cpu(regs, p, s, memory) ==
    [registers |-> regs, pc |-> p, sp |-> s, bus |-> memory]

\* Cpu::new()
NewCpu == Cpu(NewRegisters, 0, 0, NewBus)

Self == Cpu(registers, pc, sp, bus)

\* add with the half carry tested on the whole bytes, not on the low nibbles
add_whole_byte_half_carry(self, value) ==
    LET r == overflowing_add(self.registers.a, value)
    IN  [f |-> FlagsRegister(r.value = 0, FALSE,
                             self.registers.a + value > 15, r.overflow),
         new_value |-> r.value]

\* Cpu::add: the flags it sets and the value it returns
add(self, value) ==
    LET r == overflowing_add(self.registers.a, value)
        new_value == r.value
        overflow == r.overflow
    IN  [f |-> FlagsRegister(
                  new_value = 0,
                  FALSE,
                  BitAnd(self.registers.a, 15) + BitAnd(value, 15) > 15,
                  overflow),
         new_value |-> new_value]

\* addc that reads the carry flag after it has cleared the flags
addc_carry_read_late(self, value) ==
    LET r == overflowing_add(self.registers.a, value)
    IN  [f |-> FlagsRegister(r.value = 0, FALSE,
                             BitAnd(self.registers.a, 15) + BitAnd(value, 15) > 15,
                             r.overflow),
         new_value |-> r.value]

\* addc with the half carry reassociated: both nibbles and the carry summed
addc_three_input_half_carry(self, value) ==
    LET cin == bool_as_u8(self.registers.f.carry)
        first == overflowing_add(value, cin)
        second == overflowing_add(self.registers.a, first.value)
    IN  [f |-> FlagsRegister(
                  second.value = 0,
                  FALSE,
                  BitAnd(self.registers.a, 15) + BitAnd(value, 15) + cin > 15,
                  first.overflow \/ second.overflow),
         new_value |-> second.value]

\* addc whose carry forgets the overflow of folding the carry into the operand
addc_second_overflow_only(self, value) ==
    LET first == overflowing_add(value, bool_as_u8(self.registers.f.carry))
        second == overflowing_add(self.registers.a, first.value)
    IN  [f |-> FlagsRegister(
                  second.value = 0,
                  FALSE,
                  BitAnd(self.registers.a, 15) + BitAnd(first.value, 15) > 15,
                  second.overflow),
         new_value |-> second.value]

\* Cpu::addc: the flags it sets and the value it returns
addc(self, value) ==
    LET first == overflowing_add(value, bool_as_u8(self.registers.f.carry))
        intermediate_value == first.value
        first_overflow == first.overflow
        second == overflowing_add(self.registers.a, intermediate_value)
        new_value == second.value
        second_overflow == second.overflow
    IN  [f |-> FlagsRegister(
                  new_value = 0,
                  FALSE,
                  BitAnd(self.registers.a, 15) + BitAnd(intermediate_value, 15) > 15,
                  first_overflow \/ second_overflow),
         new_value |-> new_value]

\* self.$instruction(value)
call_instruction(self, op, value) ==
    IF op = "ADD" THEN add(self, value) ELSE addc(self, value)

\* the D8 arm reading its operand at pc, the opcode's own address
operand_value_d8_at_pc(target, self) ==
    CASE target = "A" -> self.registers.a
      [] target = "B" -> self.registers.b
      [] target = "C" -> self.registers.c
      [] target = "D" -> self.registers.d
      [] target = "E" -> self.registers.e
      [] target = "H" -> self.registers.h
      [] target = "L" -> self.registers.l
      [] target = "HL" -> read_byte(self.bus, read_hl(self.registers))
      [] target = "D8" -> read_byte(self.bus, self.pc)

\* the `let value = ...` of each arm of the macros: where the operand is read
operand_value(target, self) ==
    CASE target = "A" -> self.registers.a
      [] target = "B" -> self.registers.b
      [] target = "C" -> self.registers.c
      [] target = "D" -> self.registers.d
      [] target = "E" -> self.registers.e
      [] target = "H" -> self.registers.h
      [] target = "L" -> self.registers.l
      [] target = "HL" -> read_byte(self.bus, read_hl(self.registers))
      [] target = "D8" -> read_byte(self.bus, wrapping_add(self.pc, 1))

\* the HL arm taken for a two-byte instruction, like D8
next_pc_value_hl_two_bytes(target, self) ==
    IF target \in {"D8", "HL"}
    THEN wrapping_add(self.pc, 2)
    ELSE wrapping_add(self.pc, 1)

\* the value each arm of the macros ends with: the next pc
next_pc_value(target, self) ==
    IF target = "D8" THEN wrapping_add(self.pc, 2) ELSE wrapping_add(self.pc, 1)

\* the register arms storing the result in the operand's register, not in a
arithmetic_instruction_stores_in_target(target, self, op) ==
    LET value == operand_value(target, self)
        r == call_instruction(self, op, value)
        flagged == [self EXCEPT !.registers.f = r.f]
    IN  [self |-> CASE target = "B" -> [flagged EXCEPT !.registers.b = r.new_value]
                    [] target = "C" -> [flagged EXCEPT !.registers.c = r.new_value]
                    [] target = "D" -> [flagged EXCEPT !.registers.d = r.new_value]
                    [] target = "E" -> [flagged EXCEPT !.registers.e = r.new_value]
                    [] target = "H" -> [flagged EXCEPT !.registers.h = r.new_value]
                    [] target = "L" -> [flagged EXCEPT !.registers.l = r.new_value]
                    [] OTHER -> [flagged EXCEPT !.registers.a = r.new_value],
         next_pc |-> next_pc_value(target, self),
         value |-> value]

\* arithmetic_instruction!(target, self.instruction): the Cpu it leaves, the
\* value it evaluates to, and the operand it read
arithmetic_instruction(target, self, op) ==
    LET value == operand_value(target, self)
        r == call_instruction(self, op, value)
    IN  [self |-> [self EXCEPT !.registers.f = r.f, !.registers.a = r.new_value],
         next_pc |-> next_pc_value(target, self),
         value |-> value]

\* execute stepping over the instructions it does not implement
execute_skips_unimplemented(self, instruction) ==
    CASE instruction.op = "ADD" ->
           arithmetic_instruction(instruction.target, self, "ADD")
      [] instruction.op = "ADDC" ->
           arithmetic_instruction(instruction.target, self, "ADDC")
      [] OTHER -> [self |-> self, next_pc |-> wrapping_add(self.pc, 1), value |-> 0]

\* Cpu::execute
execute(self, instruction) ==
    CASE instruction.op = "ADD" ->
           arithmetic_instruction(instruction.target, self, "ADD")
      [] instruction.op = "ADDC" ->
           arithmetic_instruction(instruction.target, self, "ADDC")
      [] instruction.op = "SUB" -> [self |-> self, next_pc |-> self.pc, value |-> 0]
      [] instruction.op = "SBC" -> [self |-> self, next_pc |-> self.pc, value |-> 0]
      [] OTHER -> [self |-> self, next_pc |-> self.pc, value |-> 0]

\* run stepping over a byte with no decoding instead of panicking
run_skips_unknown(self) ==
    LET decoded == from_byte(read_byte(self.bus, self.pc))
    IN  IF decoded # None
        THEN LET r == execute(self, decoded[1])
             IN  [self |-> [r.self EXCEPT !.pc = r.next_pc],
                  panicked |-> FALSE, executed |-> TRUE,
                  next_pc |-> r.next_pc, value |-> r.value]
        ELSE [self |-> [self EXCEPT !.pc = wrapping_add(self.pc, 1)],
              panicked |-> FALSE, executed |-> FALSE,
              next_pc |-> wrapping_add(self.pc, 1), value |-> 0]

\* Cpu::run: one fetch, decode, execute, commit cycle; panic! on an unknown byte
run(self) ==
    LET instruction_byte == read_byte(self.bus, self.pc)
        decoded == from_byte(instruction_byte)
    IN  IF decoded # None
        THEN LET r == execute(self, decoded[1])
             IN  [self |-> [r.self EXCEPT !.pc = r.next_pc],
                  panicked |-> FALSE, executed |-> TRUE,
                  next_pc |-> r.next_pc, value |-> r.value]
        ELSE [self |-> self, panicked |-> TRUE, executed |-> FALSE,
              next_pc |-> self.pc, value |-> 0]

(***************************************************************************)
(* The state machine.  registers, pc, sp and bus are the fields of Cpu;    *)
(* panicked records that run reached its panic!; last records the most     *)
(* recent call (its kind, the instruction, the fetched opcode byte,        *)
(* whether execute was entered, the operand read, the accumulator, carry   *)
(* flag and pc it started from and the pc value it produced); steps counts *)
(* the calls made so far.                                                  *)
(***************************************************************************)
\* how many direct execute calls, and how many calls in all, a behaviour makes
MaxCalls == 2
MaxCycles == 6

NoCall ==
    [kind |-> "none", instruction |-> None, byte |-> 0, executed |-> FALSE,
     value |-> 0, a |-> 0, carry |-> FALSE, pc |-> 0, next_pc |-> 0]

Call(kind, instruction, byte, executed, r) ==
    [kind |-> kind, instruction |-> instruction, byte |-> byte,
     executed |-> executed, value |-> r.value, a |-> registers.a, carry |-> registers.f.carry,
     pc |-> pc, next_pc |-> r.next_pc]

Commit(self) ==
    /\ registers' = self.registers
    /\ pc' = self.pc
    /\ sp' = self.sp
    /\ bus' = self.bus

\* a direct call of cpu.execute(instruction), as the tests make it: the
\* returned pc is dropped
Execute(instruction) ==
    /\ ~panicked
    /\ steps < MaxCalls
    /\ LET r == execute(Self, instruction)
       IN  /\ Commit(r.self)
           /\ last' = Call("execute", Some(instruction), 0, TRUE, r)
    /\ panicked' = FALSE
    /\ steps' = steps + 1

\* one call of cpu.run()
Run ==
    /\ ~panicked
    /\ steps < MaxCycles
    /\ LET r == run(Self)
           byte == read_byte(bus, pc)
       IN  /\ Commit(r.self)
           /\ panicked' = r.panicked
           /\ last' = Call("run", from_byte(byte), byte, r.executed, r)
    /\ steps' = steps + 1

(***************************************************************************)
(* Memory images and register files the Cpu is loaded with before it runs  *)
(***************************************************************************)
\* ADD B; ADD D8 0x23; ADDC (HL); SUB B    and the byte 0xAA at 0x1234
ProgramImage ==
    (0 :> 128) @@ (1 :> 198) @@ (2 :> 35) @@ (3 :> 142) @@ (4 :> 144)
      @@ (4660 :> 170)

\* ADDC B at 0xFFFE; ADDC D8 at 0xFFFF with its immediate 0xFF at 0x0000;
\* ADD A at 0x0001; then a byte with no decoding
WrapImage ==
    (65534 :> 136) @@ (65535 :> 206) @@ (0 :> 255) @@ (1 :> 135) @@ (2 :> 237)
      @@ (4660 :> 15)

Images == {ProgramImage, WrapImage}

LoadedRegisters(a, carry) ==
    [NewRegisters EXCEPT !.a = a, !.b = 255, !.c = 15, !.d = 1, !.e = 240,
                         !.h = 18, !.l = 52, !.f.carry = carry]

Accumulators == {0, 1, 255}
ProgramCounters == {0, 1, 4, 65534, 65535}

Init ==
    /\ registers \in {LoadedRegisters(a, carry) : a \in Accumulators, carry \in BOOLEAN}
    /\ pc \in ProgramCounters
    /\ sp = NewCpu.sp
    /\ bus \in Images
    /\ panicked = FALSE
    /\ last = NoCall
    /\ steps = 0

Next ==
    \/ Run
    \/ \E instruction \in Instruction : Execute(instruction)

Spec == Init /\ [][Next]_vars

\* repeated run cycles only
NextRun == Run

SpecRun == Init /\ [][NextRun]_vars

(***************************************************************************)
(* add and addc over every accumulator, operand and incoming flags: the    *)
(* operand is register b, and one ADD or ADDC is executed                  *)
(***************************************************************************)
AllFlags ==
    {FlagsRegister(z, n, h, c) : z \in BOOLEAN, n \in BOOLEAN, h \in BOOLEAN, c \in BOOLEAN}

InitAlu ==
    /\ \E a \in U8, b \in U8, f \in AllFlags :
           registers = [NewRegisters EXCEPT !.a = a, !.b = b, !.f = f]
    /\ pc = NewCpu.pc
    /\ sp = NewCpu.sp
    /\ bus = NewCpu.bus
    /\ panicked = FALSE
    /\ last = NoCall
    /\ steps = 0

NextAlu ==
    \/ steps = 0 /\ Execute(Instr("ADD", "B"))
    \/ steps = 0 /\ Execute(Instr("ADDC", "B"))

SpecAlu == InitAlu /\ [][NextAlu]_vars

(***************************************************************************)
(* one ADD or ADDC with each target from every pc                          *)
(***************************************************************************)
InitExec ==
    /\ registers = LoadedRegisters(1, TRUE)
    /\ pc \in U16
    /\ sp = NewCpu.sp
    /\ bus = WrapImage
    /\ panicked = FALSE
    /\ last = NoCall
    /\ steps = 0

NextExec ==
    \E op \in {"ADD", "ADDC"}, target \in ArithmeticTarget :
        steps = 0 /\ Execute(Instr(op, target))

SpecExec == InitExec /\ [][NextExec]_vars

(***************************************************************************)
(* Properties                                                              *)
(***************************************************************************)
\* the last call executed an instruction of operation op
Executed(op) ==
    /\ last.executed
    /\ last.instruction # None
    /\ last.instruction[1].op = op

CarryIn == bool_as_u8(last.carry)

\* C1: after ADD the accumulator is (a + v) mod 256, carry says the sum
\* exceeded 255, zero says the result is 0, subtraction is false and
\* half_carry says the low nibbles summed past 0xF, a and v being the
\* accumulator and operand before the instruction, whatever the flags were.
C1_AddResultAndFlags ==
    Executed("ADD") =>
        /\ registers.a = (last.a + last.value) % 256
        /\ registers.f.carry = (last.a + last.value > 255)
        /\ registers.f.zero = (registers.a = 0)
        /\ registers.f.substraction = FALSE
        /\ registers.f.half_carry = ((last.a % 16) + (last.value % 16) > 15)

\* a = 0xFF, v = 0x01: result 0x00 with carry, zero and half_carry
C1_Witness ==
    /\ Executed("ADD")
    /\ last.a = 255 /\ last.value = 1 /\ registers.b = 1
    /\ read_af(registers) = 176

\* C2: ADDC folds the incoming carry into the operand (wrapping), adds that
\* to the accumulator (wrapping), sets carry when either step overflowed,
\* zero and subtraction as ADD does, and half_carry from the accumulator's
\* low nibble and the folded operand's low nibble.
C2_AddcResultAndFlags ==
    Executed("ADDC") =>
        LET intermediate == (last.value + CarryIn) % 256
            first_overflow == last.value + CarryIn > 255
            result == (last.a + intermediate) % 256
            second_overflow == last.a + intermediate > 255
        IN  /\ registers.a = result
            /\ registers.f.carry = (first_overflow \/ second_overflow)
            /\ registers.f.zero = (result = 0)
            /\ registers.f.substraction = FALSE
            /\ registers.f.half_carry = ((last.a % 16) + (intermediate % 16) > 15)

\* a = 0x01, carry set, v = 0xFF: af = 0x0110
C2_Witness ==
    /\ Executed("ADDC")
    /\ last.a = 1 /\ last.carry /\ last.value = 255
    /\ read_af(registers) = 272

\* C8: ADDC's half_carry differs from the three-input nibble formula
\* (a & 0xF) + (v & 0xF) + cin > 0xF exactly when cin = 1 and (v & 0xF) = 0xF,
\* and there ADDC gives false where the formula gives true.
C8_HalfCarryNotReassociable ==
    Executed("ADDC") =>
        LET three_input == (last.a % 16) + (last.value % 16) + CarryIn > 15
            differs == registers.f.half_carry # three_input
        IN  /\ differs <=> (CarryIn = 1 /\ last.value % 16 = 15)
            /\ differs => (~registers.f.half_carry /\ three_input)

\* a = 0x05, carry set, v = 0x2F: the two formulas disagree
C8_Witness ==
    /\ Executed("ADDC")
    /\ last.a = 5 /\ last.carry /\ last.value = 47
    /\ ~registers.f.half_carry
    /\ registers.a = 53

\* C9: the two-step ADDC gives the result and carry of the single addition
\* a + v + cin; the two steps never both overflow; zero is set exactly when
\* (a + v + cin) mod 256 is 0.
C9_AddcIsThreeInputSum ==
    Executed("ADDC") =>
        LET sum == last.a + last.value + CarryIn
            first == overflowing_add(last.value, CarryIn)
            second == overflowing_add(last.a, first.value)
        IN  /\ registers.a = sum % 256
            /\ registers.f.carry = (sum > 255)
            /\ ~(first.overflow /\ second.overflow)
            /\ registers.f.zero = (sum % 256 = 0)

\* a = 0xFF, carry set, v = 0x00: only the second step overflows, result 0
C9_Witness ==
    /\ Executed("ADDC")
    /\ last.a = 255 /\ last.carry /\ last.value = 0
    /\ registers.a = 0 /\ registers.f.carry /\ registers.f.zero

\* the register an ArithmeticTarget names, in the state before the step
RegisterNamed(target) ==
    CASE target = "A" -> registers.a
      [] target = "B" -> registers.b
      [] target = "C" -> registers.c
      [] target = "D" -> registers.d
      [] target = "E" -> registers.e
      [] target = "H" -> registers.h
      [] target = "L" -> registers.l

\* C3: ADD and ADDC, for every target and every pc: a register target adds
\* the value that register held before the instruction and execute returns
\* pc + 1; HL adds the bus byte at (h << 8) | l and returns pc + 1; D8 adds
\* the bus byte at pc + 1 and returns pc + 2; all modulo 2^16, with no
\* failure at the wrap.
C3_OperandAndNextPc ==
    [][\A op \in {"ADD", "ADDC"}, target \in ArithmeticTarget :
          (last'.kind = "execute" /\ last'.instruction = Some(Instr(op, target))) =>
              LET operand ==
                      CASE target = "HL" -> read_byte(bus, registers.h * 256 + registers.l)
                        [] target = "D8" -> read_byte(bus, (pc + 1) % 65536)
                        [] OTHER -> RegisterNamed(target)
                  cin == IF op = "ADDC" THEN bool_as_u8(registers.f.carry) ELSE 0
              IN  /\ last'.value = operand
                  /\ registers'.a = (registers.a + operand + cin) % 256
                  /\ last'.next_pc = (pc + (IF target = "D8" THEN 2 ELSE 1)) % 65536
                  /\ ~panicked'
      ]_vars

\* ADD D8 at pc = 0xFFFF: the immediate 0xFF is read at 0x0000, 0x0001 returned
C3_Witness ==
    /\ last.kind = "execute"
    /\ last.instruction = Some(Instr("ADD", "D8"))
    /\ last.pc = 65535 /\ last.value = 255 /\ last.next_pc = 1
    /\ registers.a = 0

\* C4: executing an instruction that is neither ADD nor ADDC leaves the
\* registers, the flags, sp, pc and the bus as they were and returns the
\* current pc.
C4_UnimplementedIsNoOp ==
    [][(/\ last'.kind = "execute"
        /\ last'.instruction[1].op \notin {"ADD", "ADDC"}) =>
            /\ UNCHANGED <<registers, pc, sp, bus>>
            /\ last'.next_pc = pc
      ]_vars

\* SBC (HL) executed after an ADD changed the accumulator and the flags
C4_Witness ==
    /\ last.kind = "execute"
    /\ last.instruction = Some(Instr("SBC", "HL"))
    /\ last.next_pc = pc /\ pc = 65535
    /\ steps = 2
    /\ read_af(registers) = 176

\* the opcode at pc in the state before a step
FetchedByte == read_byte(bus, pc)

\* C5: a run cycle whose fetched byte has no decoding ends in the fault:
\* execute is not entered, pc is not committed, and registers, flags, sp and
\* bus stay as they were.
C5_DecodeFailureFaults ==
    [][(last'.kind = "run" /\ steps' = steps + 1 /\ from_byte(FetchedByte) = None) =>
            /\ panicked'
            /\ ~last'.executed
            /\ last'.instruction = None
            /\ UNCHANGED <<registers, pc, sp, bus>>
      ]_vars

\* the third cycle from 0xFFFE fetches 0xED at 0x0002 and faults there
C5_Witness ==
    /\ panicked
    /\ last.kind = "run" /\ last.byte = 237 /\ ~last.executed
    /\ pc = 2 /\ steps = 4

\* C6: a run cycle whose opcode decodes to an operation other than ADD and
\* ADDC ends in the fault, as a decode failure does.
C6_UnimplementedFaults ==
    (/\ last.kind = "run"
     /\ last.instruction # None
     /\ last.instruction[1].op \notin {"ADD", "ADDC"}) => panicked

\* C7: no call changes sp (which stays 0x0000), the bus, or b, c, d, e, h, l;
\* execute leaves pc alone and pc changes only to the value run commits; the
\* registers change only under ADD or ADDC, and then only a and the flags.
C7_Frame ==
    [][/\ sp = 0 /\ sp' = sp
       /\ bus' = bus
       /\ [registers' EXCEPT !.a = 0, !.f = NewRegisters.f]
            = [registers EXCEPT !.a = 0, !.f = NewRegisters.f]
       /\ last'.kind = "execute" => pc' = pc
       /\ pc' # pc => (last'.kind = "run" /\ last'.executed /\ pc' = last'.next_pc)
       /\ registers' # registers =>
            (last'.executed /\ last'.instruction[1].op \in {"ADD", "ADDC"})
      ]_vars

\* ADD B run at 0x0000, then a direct ADDC B, then ADD D8 run at 0x0001
C7_Witness ==
    /\ steps = 3
    /\ last.kind = "run" /\ last.instruction = Some(Instr("ADD", "D8"))
    /\ pc = 3 /\ sp = 0 /\ bus = ProgramImage
    /\ registers.a = 33
    /\ registers.b = 255 /\ registers.c = 15 /\ registers.d = 1
    /\ registers.e = 240 /\ registers.h = 18 /\ registers.l = 52

\* a cycle is about to fetch an opcode that decodes to an unimplemented operation
Stuck ==
    /\ ~panicked
    /\ from_byte(FetchedByte) # None
    /\ from_byte(FetchedByte)[1].op \notin {"ADD", "ADDC"}

\* C10: a completed run cycle moves pc by 0, 1 or 2 modulo 2^16, by 2 only
\* for a D8 target and by 0 only for an operation other than ADD and ADDC;
\* and from the first fetch of an unimplemented opcode on, every cycle
\* completes, fetches that opcode at that pc again and changes no state.
C10_RunCycles ==
    [][(last'.kind = "run" /\ steps' = steps + 1) =>
          LET delta == (pc' - pc) % 65536
              decoded == from_byte(FetchedByte)
          IN  /\ ~panicked' =>
                    /\ last'.executed
                    /\ delta \in {0, 1, 2}
                    /\ delta = 2 => decoded[1].target = "D8"
                    /\ delta = 0 => decoded[1].op \notin {"ADD", "ADDC"}
              /\ Stuck =>
                    /\ Stuck'
                    /\ last'.byte = FetchedByte
                    /\ UNCHANGED <<registers, pc, sp, bus>>
      ]_vars

\* ADD D8 at 0x0001, ADDC (HL) at 0x0003, then SUB B fetched at 0x0004 for
\* the fourth time
C10_Witness ==
    /\ Stuck
    /\ steps = 6
    /\ pc = 4 /\ last.pc = 4 /\ last.byte = 144
    /\ last.next_pc = 4
    /\ registers.a # 0

====
